---- MODULE Spec2Model ----
(***************************************************************************)
(* Alpha-beta game-tree search of minimax_strategy (src/src/lib.rs).       *)
(*                                                                         *)
(* AlphaBetaStrategy::select_action builds a root TreeNode and runs the    *)
(* recursive construct_best_game_tree_alpha_beta on it.  The recursion is  *)
(* modelled as an explicit call stack: one frame per active call, one step *)
(* per entry into a call and per resumption of a caller after a child      *)
(* call returned.  Rule and Evaluator are traits implemented by the        *)
(* caller; here they are a family of bounded counting games chosen in      *)
(* Init: a position is a number, an action adds one of the steps to it.    *)
(* The board either ends at MaxPos, so that a game runs out of actions, or *)
(* wraps around, so that a game never does.                                *)
(***************************************************************************)
EXTENDS Integers, Sequences, FiniteSets

\* ---------------------------------------------------------------- bounds
\* positions of the game are 0..MaxPos
MaxPos == 4
\* configured search depths are 0..MaxDepth
MaxDepth == 4

\* ------------------------------------------------------- Option<T> values
None == <<>>
Some(v) == <<v>>
IsSome(o) == o # <<>>
Unwrap(o) == o[1]

\* ------------------------------------------------------------------ Actor
Actor == {"First", "Second"}

opponent(a) == IF a = "First" THEN "Second" ELSE "First"

\* ----------------------------------------------------------------- Payoff
\* E::Payoff: Copy + Ord + Bounded.  A three-valued ordinal scale.
Payoff == {-1, 0, 1}

min_value == CHOOSE v \in Payoff : \A w \in Payoff : v <= w
max_value == CHOOSE v \in Payoff : \A w \in Payoff : w <= v

\* order-reversing map of the scale (the evaluator's view of the opponent)
neg(v) == min_value + max_value - v

\* ------------------------------------------------------------------ Range
\* data_structure::Range<T>: a pair of bounds.  new is unchecked, try_new
\* gives a range only when min <= max.
RangeNew(lo, hi) == [min |-> lo, max |-> hi]

RangeTryNew(lo, hi) == IF lo <= hi THEN Some(RangeNew(lo, hi)) ELSE None

\* ------------------------------------------------- the game (Rule, Evaluator)
States == 0..MaxPos

\* the steps an action can add, in the order the rule enumerates them
StepOrder == <<1, 2, 3>>

\* at most one position of a game is game-over
OverChoices == {{}} \cup {{p} : p \in States}

VARIABLES
    pay,            \* Evaluator: payoff of each position for Actor First
    over,           \* Rule: the positions that satisfy is_game_over
    wrap,           \* Rule: TRUE when the positions wrap around after MaxPos
    root_state,     \* select_action's state argument
    consideration_target, \* select_action's actor argument
    search_depth,   \* AlphaBetaStrategy.search_depth
    stack,          \* active calls of construct_best_game_tree_alpha_beta
    pc,             \* "call", "loop", "return" or "done"
    ret,            \* value returned by the call that just returned
    result,         \* value returned by select_action
    evaluations     \* calls of Evaluator::evaluate_payoff_for, in order

vars == <<pay, over, wrap, root_state, consideration_target, search_depth,
          stack, pc, ret, result, evaluations>>

game == <<pay, over, wrap, root_state, consideration_target, search_depth>>

\* Rule::is_game_over
is_game_over(state) == state \in over

\* Rule::iterate_available_actions: every step that stays on the board
\* (every step, on a board that wraps around), in StepOrder, tagged with the
\* acting actor
iterate_available_actions(state, actor) ==
    LET all == [i \in 1..Len(StepOrder) |-> [step |-> StepOrder[i], actor |-> actor]]
    IN  SelectSeq(all, LAMBDA a : wrap \/ state + a.step <= MaxPos)

\* Rule::translate_state
translate_state(state, action) ==
    IF wrap
    THEN (state + action.step) % (MaxPos + 1)
    ELSE state + action.step

\* Evaluator::evaluate_payoff_for
evaluate_payoff_for(actor, state) ==
    IF actor = "First" THEN pay[state] ELSE neg(pay[state])

\* ------------------------------------------------------------- tree nodes
\* MinimaxNode::new: state, cause_action, payoff
MinimaxNodeNew(state, cause_action, payoff) ==
    [state |-> state, cause_action |-> cause_action, payoff |-> payoff]

\* TreeNode::new: a node without child.  The retained child is kept as the
\* line of retained descendants' items, nearest first (<<>> is no child).
\* The remaining fields are the locals of the call on this node.
TreeNodeNew(item, remaining_depth, payoff_range, path) ==
    [item |-> item, child |-> <<>>,
     remaining_depth |-> remaining_depth,
     payoff_range |-> payoff_range,
     current_payoff_range |-> payoff_range,
     actions |-> <<>>,
     path |-> path]

\* TreeNode::replace_child: the previous child, if any, is dropped
replace_child(node, new_child) ==
    [node EXCEPT !.child = <<new_child.item>> \o new_child.child]

\* TreeNode::into_child
into_child(node) ==
    IF node.child = <<>> THEN None ELSE Some(Head(node.child))

Top == stack[Len(stack)]
Parent == stack[Len(stack) - 1]

\* lib.rs: who will act on the node's state
next_actor(node) ==
    IF IsSome(node.item.cause_action)
    THEN opponent(Unwrap(node.item.cause_action).actor)
    ELSE consideration_target

\* faulty variant of is_leaf: the game-over test is left out
is_leaf_depth_only(remaining_depth, state) ==
    remaining_depth = 0

\* lib.rs: a node is scored statically when the depth is used up or the game is over
is_leaf(remaining_depth, state) ==
    remaining_depth = 0 \/ is_game_over(state)

\* faulty variant of evaluation_actor: the actor to move is asked for
evaluation_actor_to_move(node) == next_actor(node)

\* lib.rs: the perspective the evaluator is asked for
evaluation_actor(node) == consideration_target

\* faulty variant of not_better: a candidate that ties replaces the current one
not_better_strict(e, child_payoff, actor) ==
    IF actor = consideration_target
    THEN e > child_payoff
    ELSE e < child_payoff

\* lib.rs: the candidate is no better than the current payoff e
not_better(e, child_payoff, actor) ==
    IF actor = consideration_target
    THEN e >= child_payoff
    ELSE e <= child_payoff

\* faulty variant of maybe_next_range: the range is built unchecked
maybe_next_range_unchecked(actor, child_payoff, range) ==
    IF actor = consideration_target
    THEN Some(RangeNew(child_payoff, range.max))
    ELSE Some(RangeNew(range.min, child_payoff))

\* faulty variant of maybe_next_range: the wrong bound is tightened
maybe_next_range_swapped(actor, child_payoff, range) ==
    IF actor = consideration_target
    THEN RangeTryNew(range.min, child_payoff)
    ELSE RangeTryNew(child_payoff, range.max)

\* lib.rs: the range for the remaining siblings, None for a cut
maybe_next_range(actor, child_payoff, range) ==
    IF actor = consideration_target
    THEN RangeTryNew(child_payoff, range.max)
    ELSE RangeTryNew(range.min, child_payoff)

\* lib.rs: the child node the loop builds for an action
child_node(node, action) ==
    TreeNodeNew(
        MinimaxNodeNew(translate_state(node.item.state, action), Some(action), None),
        node.remaining_depth - 1,
        node.current_payoff_range,
        Append(node.path, action.step))

\* The head of the for loop over the calls below stk, whose top frame is in
\* its loop: the next action's child is built and called, or the loop is
\* over and the call returns the node's payoff.
LoopHead(stk) ==
    LET n == Len(stk)
        node == stk[n]
    IN  IF node.actions = <<>>
        THEN [stack |-> stk, pc |-> "return", ret |-> node.item.payoff]
        ELSE [stack |-> Append([stk EXCEPT ![n].actions = Tail(node.actions)],
                               child_node(node, Head(node.actions))),
              pc |-> "call", ret |-> None]

\* faulty variant of select_action_result: the action at the end of the
\* retained line is returned
select_action_last(r, root) ==
    IF ~IsSome(r) THEN None
    ELSE IF ~IsSome(into_child(root)) THEN None
    ELSE root.child[Len(root.child)].cause_action

\* select_action's chain of and_then on the root call's result
select_action_result(r, root) ==
    IF ~IsSome(r) THEN None
    ELSE IF ~IsSome(into_child(root)) THEN None
    ELSE Unwrap(into_child(root)).cause_action

\* ---------------------------------------------------------------- actions
Init ==
    /\ pay \in [States -> Payoff]
    /\ over \in OverChoices
    /\ wrap = FALSE
    /\ root_state \in States
    /\ consideration_target \in Actor
    /\ search_depth \in 0..MaxDepth
    /\ stack = <<TreeNodeNew(MinimaxNodeNew(root_state, None, None),
                             search_depth,
                             RangeNew(min_value, max_value),
                             <<>>)>>
    /\ pc = "call"
    /\ ret = None
    /\ result = None
    /\ evaluations = <<>>

\* the call is on a leaf: score it and return the score
EvaluateLeaf ==
    /\ pc = "call"
    /\ is_leaf(Top.remaining_depth, Top.item.state)
    /\ LET payoff == evaluate_payoff_for(evaluation_actor(Top), Top.item.state)
       IN  /\ stack' = [stack EXCEPT ![Len(stack)].item.payoff = Some(payoff)]
           /\ ret' = Some(payoff)
           /\ evaluations' = Append(evaluations,
                  [path |-> Top.path, actor |-> evaluation_actor(Top),
                   remaining_depth |-> Top.remaining_depth,
                   state |-> Top.item.state])
    /\ pc' = "return"
    /\ UNCHANGED <<game, result>>

\* the call is on an inner node: enumerate its actions and enter the loop
Expand ==
    /\ pc = "call"
    /\ ~is_leaf(Top.remaining_depth, Top.item.state)
    /\ LET acts == iterate_available_actions(Top.item.state, next_actor(Top))
           nxt == LoopHead([stack EXCEPT ![Len(stack)].actions = acts])
       IN  /\ stack' = nxt.stack
           /\ pc' = nxt.pc
           /\ ret' = nxt.ret
    /\ UNCHANGED <<game, result, evaluations>>

\* the child call returned None: the child is not considered
SkipChild ==
    /\ pc = "return"
    /\ Len(stack) >= 2
    /\ ~IsSome(ret)
    /\ LET nxt == LoopHead(SubSeq(stack, 1, Len(stack) - 1))
       IN  /\ stack' = nxt.stack
           /\ pc' = nxt.pc
           /\ ret' = nxt.ret
    /\ UNCHANGED <<game, result, evaluations>>

\* the child is no better than the node's current payoff: it is dropped
KeepCurrent ==
    /\ pc = "return"
    /\ Len(stack) >= 2
    /\ IsSome(ret)
    /\ IsSome(Parent.item.payoff)
    /\ not_better(Unwrap(Parent.item.payoff), Unwrap(ret), next_actor(Parent))
    /\ LET nxt == LoopHead(SubSeq(stack, 1, Len(stack) - 1))
       IN  /\ stack' = nxt.stack
           /\ pc' = nxt.pc
           /\ ret' = nxt.ret
    /\ UNCHANGED <<game, result, evaluations>>

\* the child is the first scored one or better than the current payoff
IsPromotion ==
    /\ pc = "return"
    /\ Len(stack) >= 2
    /\ IsSome(ret)
    /\ IF IsSome(Parent.item.payoff)
       THEN ~not_better(Unwrap(Parent.item.payoff), Unwrap(ret), next_actor(Parent))
       ELSE TRUE

\* the parent with the child retained and the child's payoff taken over
Promoted ==
    [replace_child(Parent, Top) EXCEPT !.item.payoff = ret]

\* the child is promoted and the range for the remaining siblings is updated
PromoteAndNarrow ==
    /\ IsPromotion
    /\ LET r == maybe_next_range(next_actor(Parent), Unwrap(ret),
                                 Parent.current_payoff_range)
       IN  /\ IsSome(r)
           /\ LET node == [Promoted EXCEPT !.current_payoff_range = Unwrap(r)]
                  nxt == LoopHead(Append(SubSeq(stack, 1, Len(stack) - 2), node))
              IN  /\ stack' = nxt.stack
                  /\ pc' = nxt.pc
                  /\ ret' = nxt.ret
    /\ UNCHANGED <<game, result, evaluations>>

\* the child is promoted and no range is left: the loop is broken off and
\* the call returns the node's payoff
PromoteAndCut ==
    /\ IsPromotion
    /\ ~IsSome(maybe_next_range(next_actor(Parent), Unwrap(ret),
                                Parent.current_payoff_range))
    /\ stack' = Append(SubSeq(stack, 1, Len(stack) - 2), Promoted)
    /\ pc' = "return"
    /\ ret' = Promoted.item.payoff
    /\ UNCHANGED <<game, result, evaluations>>

\* the root call returned: select_action reads the answer off the root
Finish ==
    /\ pc = "return"
    /\ Len(stack) = 1
    /\ result' = select_action_result(ret, Top)
    /\ pc' = "done"
    /\ UNCHANGED <<game, stack, ret, evaluations>>

Next ==
    \/ EvaluateLeaf
    \/ Expand
    \/ SkipChild
    \/ KeepCurrent
    \/ PromoteAndNarrow
    \/ PromoteAndCut
    \/ Finish

Spec == Init /\ [][Next]_vars

\* The inputs for the questions of depth and termination: the depth type N
\* is any num::Integer, so a signed N can hold a negative depth, and the
\* board may wrap around, so that only the depth ends the recursion.  A
\* negative depth is taken only on a board that ends: on one that wraps
\* around the recursion would not end.  No position is game-over, so that
\* a line of play ends by the depth or by the lack of actions only.  The
\* searching actor is First: the payoff tables are closed under neg, so the
\* searches for Second are these with the actors renamed.  On a board that
\* wraps around the tree is full, and the depths end one below MaxDepth.
InitAnyDepth ==
    /\ pay \in [States -> Payoff]
    /\ over = {}
    /\ wrap \in BOOLEAN
    /\ root_state = 0
    /\ consideration_target = "First"
    /\ search_depth \in IF wrap THEN 0..(MaxDepth - 1) ELSE {-1} \cup 0..MaxDepth
    /\ stack = <<TreeNodeNew(MinimaxNodeNew(root_state, None, None),
                             search_depth,
                             RangeNew(min_value, max_value),
                             <<>>)>>
    /\ pc = "call"
    /\ ret = None
    /\ result = None
    /\ evaluations = <<>>

\* select_action runs synchronously on one thread: a step that can be taken
\* is taken
SpecAnyDepth == InitAnyDepth /\ [][Next]_vars /\ WF_vars(Next)

\* ------------------------------------------------- reference definitions
SeqToSet(q) == {q[i] : i \in 1..Len(q)}

SetMax(S) == CHOOSE v \in S : \A w \in S : w <= v
SetMin(S) == CHOOSE v \in S : \A w \in S : v <= w

\* the actions the rule enumerates for the root and the searching actor
RootActions == iterate_available_actions(root_state, consideration_target)

\* v is strictly preferred to e by the actor to move
StrictlyPreferred(v, e, actor) ==
    IF actor = consideration_target THEN v > e ELSE v < e

\* Full-width minimax without window or cut: the value of a position with
\* mover to move and depth plies left, None for "no decision".
RECURSIVE MinimaxValue(_, _, _)
MinimaxValue(state, mover, depth) ==
    IF depth = 0 \/ state \in over
    THEN Some(evaluate_payoff_for(consideration_target, state))
    ELSE LET acts == iterate_available_actions(state, mover)
             vals == [i \in 1..Len(acts) |->
                         MinimaxValue(translate_state(state, acts[i]),
                                      opponent(mover), depth - 1)]
             scored == {Unwrap(vals[i]) : i \in {j \in 1..Len(acts) : IsSome(vals[j])}}
         IN  IF scored = {} THEN None
             ELSE IF mover = consideration_target
                  THEN Some(SetMax(scored))
                  ELSE Some(SetMin(scored))

\* the action full-width minimax chooses at the root: the first action, in
\* enumeration order, whose successor has the best value among the scored ones
MinimaxChoice ==
    IF search_depth = 0 \/ root_state \in over THEN None
    ELSE LET acts == RootActions
             vals == [i \in 1..Len(acts) |->
                         MinimaxValue(translate_state(root_state, acts[i]),
                                      opponent(consideration_target),
                                      search_depth - 1)]
             idx == {j \in 1..Len(acts) : IsSome(vals[j])}
         IN  IF idx = {} THEN None
             ELSE LET best == SetMax({Unwrap(vals[j]) : j \in idx})
                      first == CHOOSE j \in idx :
                                   /\ Unwrap(vals[j]) = best
                                   /\ \A k \in idx : Unwrap(vals[k]) = best => j <= k
                  IN  Some(acts[first])

\* the number of nodes full-width search scores below a position
RECURSIVE FullWidthLeaves(_, _)
FullWidthLeaves(state, depth) ==
    LET RECURSIVE Sum(_)
        Sum(steps) ==
            IF steps = <<>> THEN 0
            ELSE Sum(Tail(steps)) +
                 (IF state + Head(steps) <= MaxPos
                  THEN FullWidthLeaves(state + Head(steps), depth - 1)
                  ELSE 0)
    IN  IF depth = 0 \/ state \in over THEN 1 ELSE Sum(StepOrder)

\* the frame is on an inner node (its call did not return at the leaf test)
IsInner(node) == ~(node.remaining_depth = 0 \/ node.item.state \in over)

\* ----------------------------------------------------------------- claims

\* C1: select_action returns None if and only if the rule enumerates no
\* action for the root state and the searching actor, at every depth.
C1_NoneIffNoActions ==
    pc = "done" => ((result = None) <=> (RootActions = <<>>))

\* C2: an action select_action returns is one of the actions the rule
\* enumerates for the root state and the searching actor.
C2_ResultIsRootAction ==
    (pc = "done" /\ IsSome(result)) =>
        /\ Unwrap(result) \in SeqToSet(RootActions)
        /\ Unwrap(result) = Unwrap(Head(stack[1].child).cause_action)

C2_Witness ==
    /\ pc = "done"
    /\ IsSome(result)
    /\ Len(stack[1].child) >= 3

\* C3: for a root that is not game-over the action chosen with pruning is
\* the action full-width minimax chooses with the same depth, leaf scoring,
\* skipping of undecided children and first-found tie-break.
C3_PruningEquivalence ==
    (pc = "done" /\ ~is_game_over(root_state)) => result = MinimaxChoice

\* a search that returned an action and, by cuts, scored fewer nodes than
\* full-width search does
C3_Witness ==
    /\ pc = "done"
    /\ ~is_game_over(root_state)
    /\ IsSome(result)
    /\ search_depth >= 2
    /\ Len(evaluations) < FullWidthLeaves(root_state, search_depth)

\* C4: with search depth 0 and legal actions at the root, select_action
\* returns an action whose successor has the highest evaluator score.
C4_DepthZeroGreedy ==
    (pc = "done" /\ search_depth = 0 /\ RootActions # <<>>) =>
        /\ IsSome(result)
        /\ \A a \in SeqToSet(RootActions) :
              evaluate_payoff_for(consideration_target,
                                  translate_state(root_state, Unwrap(result)))
              >= evaluate_payoff_for(consideration_target,
                                     translate_state(root_state, a))

\* C5: a root that is already game-over yields None for every actor and
\* depth, also when the rule still enumerates actions for it.
C5_GameOverRootNone ==
    (pc = "done" /\ is_game_over(root_state)) => result = None

C5_Witness ==
    /\ pc = "done"
    /\ is_game_over(root_state)
    /\ RootActions # <<>>
    /\ search_depth >= 1
    /\ result = None

\* C6: when a child call returns, the parent's payoff and retained child
\* change only if the child is scored and either the parent had no payoff or
\* the child's payoff is strictly preferred; a child that ties or is worse
\* leaves both unchanged, and a promoted child becomes the retained child.
C6_StrictPromotion ==
    [][(pc = "return" /\ Len(stack) >= 2) =>
          LET before == Parent
              after == stack'[Len(stack) - 1]
              changed == \/ after.item.payoff # before.item.payoff
                         \/ after.child # before.child
              preferred == /\ IsSome(ret)
                           /\ IF IsSome(before.item.payoff)
                              THEN StrictlyPreferred(Unwrap(ret),
                                                     Unwrap(before.item.payoff),
                                                     next_actor(before))
                              ELSE TRUE
          IN  /\ changed => preferred
              /\ preferred => /\ after.item.payoff = ret
                              /\ Head(after.child) = Top.item
              /\ ~preferred => /\ after.item.payoff = before.item.payoff
                               /\ after.child = before.child]_vars

\* a scored child that ties with the payoff of a parent that retains a child
C6_Witness ==
    /\ pc = "return"
    /\ Len(stack) >= 2
    /\ IsSome(ret)
    /\ Parent.item.payoff = ret
    /\ Parent.child # <<>>
    /\ Head(Parent.child) # Top.item

\* C7: the window only narrows: at a node that promoted a child the window
\* for the remaining siblings is the received one with lo raised to
\* max(lo, v) (searching actor to move) or hi lowered to min(hi, v)
\* (otherwise), and every window passed down lies within the parent's.
C7_WindowOnlyNarrows ==
    /\ \A i \in 1..Len(stack) :
          LET node == stack[i]
              lo == node.payoff_range.min
              hi == node.payoff_range.max
              v == Unwrap(node.item.payoff)
              cur == node.current_payoff_range
          IN  (IsInner(node) /\ IsSome(node.item.payoff)) =>
                 IF next_actor(node) = consideration_target
                 THEN v <= hi => (cur.min = (IF lo >= v THEN lo ELSE v) /\ cur.max = hi)
                 ELSE lo <= v => (cur.min = lo /\ cur.max = (IF hi <= v THEN hi ELSE v))
    /\ \A i \in 2..Len(stack) :
          /\ stack[i - 1].payoff_range.min <= stack[i].payoff_range.min
          /\ stack[i].payoff_range.max <= stack[i - 1].payoff_range.max

\* C8: a call on a node that is not a leaf and has a legal action for the
\* actor to move returns a payoff, never None.
C8_ScoredWhenActionsExist ==
    (pc = "return" /\ IsInner(Top)
       /\ iterate_available_actions(Top.item.state, next_actor(Top)) # <<>>)
    => IsSome(ret)

\* C9: every window passed to a call has lo <= hi, and a call returns with
\* actions left only after promoting a child whose payoff inverts the window.
C9_WindowValid ==
    /\ \A i \in 1..Len(stack) :
          /\ stack[i].payoff_range.min <= stack[i].payoff_range.max
          /\ stack[i].current_payoff_range.min <= stack[i].current_payoff_range.max
    /\ (pc = "return" /\ Top.actions # <<>>) =>
          /\ IsSome(ret)
          /\ ret = Top.item.payoff
          /\ Head(Top.child).payoff = ret
          /\ IF next_actor(Top) = consideration_target
             THEN Unwrap(ret) > Top.current_payoff_range.max
             ELSE Unwrap(ret) < Top.current_payoff_range.min

\* a call that broke off its loop with an action left
C9_Witness ==
    /\ pc = "return"
    /\ Top.actions # <<>>
    /\ Len(stack) >= 2

\* C10: the evaluator is called only on nodes with remaining depth 0 or a
\* game-over position, at most once per node, always for the searching actor.
C10_EvaluatorCalls ==
    /\ \A i \in 1..Len(evaluations) :
          /\ evaluations[i].remaining_depth = 0 \/ is_game_over(evaluations[i].state)
          /\ evaluations[i].actor = consideration_target
    /\ \A i, j \in 1..Len(evaluations) :
          evaluations[i].path = evaluations[j].path => i = j

\* leaves scored at an odd and at an even ply, one of them game-over early
C10_Witness ==
    /\ pc = "done"
    /\ \E i, j, k \in 1..Len(evaluations) :
          /\ Len(evaluations[i].path) = 1
          /\ Len(evaluations[j].path) = 2
          /\ evaluations[k].remaining_depth > 0

\* the number of plies between the root and the node of the i-th active call
Ply(i) == Len(stack[i].path)

\* C11: for every configured depth, no recursive call is made on a node
\* more than search_depth plies below the root.  (The call on the root is
\* the first of the stack and is not a recursive one.)
C11_RecursionWithinAnyDepth ==
    \A i \in 2..Len(stack) : Ply(i) <= search_depth

\* an upper bound on the steps of a call with depth plies left: one to enter
\* it and, per action, the steps of the child call and one to take its result
RECURSIVE CallSteps(_)
CallSteps(depth) ==
    IF depth <= 0 THEN 1
    ELSE 1 + Len(StepOrder) * (CallSteps(depth - 1) + 1)

\* the steps the i-th active call still takes after its running child call
\* returned: one for the result and those of the actions not yet enumerated
PendingSteps(i) ==
    1 + Len(stack[i].actions) * (CallSteps(stack[i].remaining_depth - 1) + 1)

RECURSIVE PendingBelow(_)
PendingBelow(i) == IF i = 0 THEN 0 ELSE PendingSteps(i) + PendingBelow(i - 1)

\* an upper bound on the steps until select_action has returned
StepsLeft ==
    IF pc = "done" THEN 0
    ELSE 1 + (IF pc = "call" THEN CallSteps(Top.remaining_depth) ELSE 0)
           + PendingBelow(Len(stack) - 1)

\* C11, the depths that are not negative: for such a configured depth the
\* i-th active call is on a node i - 1 plies below the root with
\* search_depth - (i - 1) >= 0 plies left, so that no call is made on a node
\* more than search_depth plies below the root; and select_action
\* terminates: until it has returned a step can be taken, and every step
\* lowers StepsLeft, a natural number that starts at CallSteps(search_depth) + 1.
C11_BoundedRecursionTerminates ==
    /\ [](search_depth >= 0 =>
            /\ \A i \in 1..Len(stack) :
                  /\ Ply(i) = i - 1
                  /\ stack[i].remaining_depth = search_depth - Ply(i)
                  /\ Ply(i) <= search_depth
            /\ StepsLeft >= 0
            /\ StepsLeft <= CallSteps(search_depth) + 1
            /\ pc # "done" => ENABLED Next)
    /\ [][search_depth >= 0 => StepsLeft' < StepsLeft]_vars

\* a search on a board that wraps around that scored a node search_depth
\* plies below the root and returned
C11_Witness ==
    /\ pc = "done"
    /\ wrap
    /\ search_depth >= 3
    /\ \E i \in 1..Len(evaluations) :
          /\ Len(evaluations[i].path) = search_depth
          /\ ~is_game_over(evaluations[i].state)

====
